---- MODULE Spec2Model ----
(***************************************************************************)
(* FlashBeam (src/python/flashBeam/flashbeam.py): a beam search with a     *)
(* persistent flash pool over a pluggable SearchProblem.                   *)
(*                                                                         *)
(* The SearchProblem is the pattern shared by the problem modules of the   *)
(* repository (LongReidProblem, BenoistProblem, SU2IntegerProblem): a      *)
(* group, its generators with their inverses, combine = group product plus *)
(* free reduction of the word, a score = distance from the identity, a     *)
(* hash key = the state (or the state up to sign), a target predicate and  *)
(* a word-length filter.  The matrix groups are infinite; the model takes  *)
(* the cyclic group of order Modulus in their place.                       *)
(***************************************************************************)
EXTENDS Integers, Sequences, FiniteSets, TLC

\* ------------------------------------------------------------- bounds
Modulus == 7
MaxBeamWidth == 2
MaxFlashSize == 3
MaxIterations == 4
MaxSolutions == 2
MaxWordLen == 3
MaxRequests == 3
MaxPolys == 2
MaxPrime == 7

VARIABLES
    problem,           \* self.problem: [gens, target, signKey, minLen, fmt]
    beam_width,        \* self.beam_width
    flash_size,        \* self.flash_size
    max_iterations,    \* self.max_iterations
    max_solutions,     \* self.max_solutions
    pc,                \* position in solve(): start, loop, expand, select, done
    outcome,           \* how solve() ended: none, Solved, Exhausted, BudgetExceeded, Error
    i,                 \* the loop variable of line 96
    current_beam,
    visited,
    persistent_flash,
    found_solutions,
    expansion_pool,
    next_candidates,
    b_idx,             \* position of the two nested loops of lines 121 and 124
    f_idx,
    calls,             \* instrumentation: calls made on the problem so far
    visited_at_head,   \* instrumentation: len(visited) at the head of the iteration
    last_combine,      \* instrumentation: the operands of the last combine call
    progress,          \* the last progress record printed
    history,           \* instrumentation: frontier, flash, visited after each iteration
    other,             \* the frame of a second solve() call, suspended
    first_result,      \* instrumentation: what the first solve() call returned
    impl,              \* the problem class whose combine is exercised on its own
    node,              \* the node that combine has built last (the root at first)
    operands,          \* the operands (node_a, node_b) of that combine call
    search_status,     \* riley/app.py: the shared dictionary of the web app
    start_pc,          \* riley/app.py: where each /start request is in start()
    loop_pc,           \* riley/app.py: where each search_loop thread is
    poly_idx,          \* riley/app.py: idx, the loop variable of each search_loop thread
    prime_p,           \* hurwitz.py: the argument p of primes_above
    prime_pc,          \* hurwitz.py: position in primes_above
    candidates,        \* hurwitz.py: the quaternions of norm p, as (a, b, c, d)
    cand_idx,          \* hurwitz.py: position of the loop over the candidates
    seen,
    reps

vars == <<problem, beam_width, flash_size, max_iterations, max_solutions, pc,
          outcome, i, current_beam, visited, persistent_flash, found_solutions,
          expansion_pool, next_candidates, b_idx, f_idx, calls, visited_at_head,
          last_combine, progress, history, other, first_result,
          impl, node, operands, search_status, start_pc, loop_pc, poly_idx,
          prime_p, prime_pc, candidates, cand_idx, seen, reps>>

\* ------------------------------------------------- the SearchProblem

\* inverses_map: the label of a generator is its state, its inverse the negative
InversesMap(t) == (Modulus - t) % Modulus

RECURSIVE ReduceStack(_, _)
ReduceStack(stack, tokens) ==
    IF tokens = <<>> THEN stack
    ELSE LET t == Head(tokens) IN
         IF stack # <<>> /\ InversesMap(stack[Len(stack)]) = t
         THEN ReduceStack(SubSeq(stack, 1, Len(stack) - 1), Tail(tokens))
         ELSE ReduceStack(Append(stack, t), Tail(tokens))

\* _reduce_word: cancel adjacent inverse pairs with a stack
ReduceWord(word) == ReduceStack(<<>>, word)

CalcScoreAsFormatted(s) ==
    IF problem.fmt = "score" THEN (IF s <= Modulus - s THEN s ELSE Modulus - s) ELSE s

\* _calc_score: distance of the state from the identity, lower is better
CalcScore(s) == IF s <= Modulus - s THEN s ELSE Modulus - s

\* get_initial_node: the identity with the empty word
InitialNode == [state |-> 0, identifier |-> <<>>, score |-> CalcScore(0)]

\* get_generators: one node per generator, its name as identifier
Generators ==
    [k \in 1 .. Len(problem.gens) |->
        [state |-> problem.gens[k],
         identifier |-> <<problem.gens[k]>>,
         score |-> CalcScore(problem.gens[k])]]

\* combine: product of the states, concatenated and reduced word, fresh score
Combine(a, b) ==
    LET s == (a.state + b.state) % Modulus IN
    [state |-> s,
     identifier |-> ReduceWord(a.identifier \o b.identifier),
     score |-> CalcScore(s)]

\* get_hash_key: the state, or the state up to sign (M and -M equivalent)
GetHashKey(n) ==
    LET neg == (Modulus - n.state) % Modulus IN
    IF problem.signKey /\ neg < n.state THEN neg ELSE n.state

\* is_solution: the state is a target
IsSolution(n) == n.state \in problem.target

\* is_nontrivial: the word is longer than the known short identities
IsNontrivial(n) == Len(n.identifier) > problem.minLen

\* format_score: a text made from the score, or one made from the state
FormatScore(n) == IF problem.fmt = "score" THEN n.score ELSE n.state

\* ------------------------------------------------- pieces of solve()

\* list.sort(key=score) is stable: an element goes after those of equal score
InsertByScore(sorted, n) ==
    LET k == Cardinality({j \in 1 .. Len(sorted) : sorted[j].score <= n.score}) IN
    SubSeq(sorted, 1, k) \o <<n>> \o SubSeq(sorted, k + 1, Len(sorted))

RECURSIVE SortByScore(_)
SortByScore(s) ==
    IF s = <<>> THEN <<>>
    ELSE InsertByScore(SortByScore(SubSeq(s, 1, Len(s) - 1)), s[Len(s)])

\* heapq.nsmallest(n, s, key=score): sorted(s, key=score)[:n], empty for n <= 0
NSmallest(n, s) ==
    SubSeq(SortByScore(s), 1, IF n < 0 THEN 0 ELSE IF n < Len(s) THEN n ELSE Len(s))

RECURSIVE PoolScan(_, _, _)
PoolScan(rest, pool, seen_uids) ==
    IF rest = <<>> THEN pool
    ELSE LET n == Head(rest)
             uid == GetHashKey(n) IN
         IF uid \notin seen_uids
         THEN PoolScan(Tail(rest), Append(pool, n), seen_uids \cup {uid})
         ELSE PoolScan(Tail(rest), pool, seen_uids)

ExpansionPoolGensFirst(flash, gens) == PoolScan(gens \o flash, <<>>, {})

\* lines 98-107: flash then generators, first node of each key kept
ExpansionPool(flash, gens) == PoolScan(flash \o gens, <<>>, {})

NeverVisited(uid, vis) == FALSE

CombineArgsSwapped(b_node, f_node) == <<f_node, b_node>>

\* line 127: the operands handed to combine, left then right
CombineArgs(b_node, f_node) == <<b_node, f_node>>

\* line 131
AlreadyVisited(uid, vis) == uid \in vis

VisitedKeep(vis, uid) == vis

\* line 133
VisitedAdd(vis, uid) == vis \cup {uid}

AcceptedAnySolution(child) == IsSolution(child)

\* lines 136-137
Accepted(child) == IsSolution(child) /\ IsNontrivial(child)

ExceededMax(found) == Len(found) > max_solutions

\* line 145
ReachedMax(found) == Len(found) >= max_solutions

UpdateBeamNoCut(cands) == SortByScore(cands)

UpdateBeamHead(cands) ==
    SubSeq(cands, 1, IF Len(cands) > beam_width THEN beam_width ELSE Len(cands))

\* lines 156-160
UpdateBeam(cands) ==
    IF Len(cands) > beam_width
    THEN NSmallest(beam_width, cands)
    ELSE SortByScore(cands)

\* line 170: score < 1e-10; the scores of the model are whole numbers
ScoreNearZero(n) == n.score <= 0

RECURSIVE FlashScan(_, _, _)
FlashScan(rest, flash, seen_persistent) ==
    IF rest = <<>> THEN flash
    ELSE LET n == Head(rest)
             uid == GetHashKey(n) IN
         IF ScoreNearZero(n) THEN FlashScan(Tail(rest), flash, seen_persistent)
         ELSE IF uid \in seen_persistent
              THEN FlashScan(Tail(rest), flash, seen_persistent)
              ELSE IF Len(flash) + 1 >= flash_size
                   THEN Append(flash, n)
                   ELSE FlashScan(Tail(rest), Append(flash, n),
                                  seen_persistent \cup {uid})

\* the get_hash_key calls of line 172: one per node the scan does not drop at
\* line 170, up to the break of line 177
RECURSIVE FlashScanCalls(_, _, _)
FlashScanCalls(rest, kept, seen_persistent) ==
    IF rest = <<>> THEN 0
    ELSE LET n == Head(rest)
             uid == GetHashKey(n) IN
         IF ScoreNearZero(n) THEN FlashScanCalls(Tail(rest), kept, seen_persistent)
         ELSE IF uid \in seen_persistent
              THEN 1 + FlashScanCalls(Tail(rest), kept, seen_persistent)
              ELSE IF kept + 1 >= flash_size
                   THEN 1
                   ELSE 1 + FlashScanCalls(Tail(rest), kept + 1,
                                           seen_persistent \cup {uid})

RefreshFlashFromBeam(flash, beam) == FlashScan(SortByScore(beam), <<>>, {})

\* lines 164-177
RefreshFlash(flash, beam) == FlashScan(SortByScore(flash \o beam), <<>>, {})

\* ------------------------------------------------------------ inputs

GeneratorLists ==
    { <<>>,
      <<1, Modulus - 1>>,
      <<1, 3>>,
      <<1, 2, Modulus - 1, Modulus - 2>> }

Targets == { {0}, {2, Modulus - 2}, {3} }

Problems ==
    [gens : GeneratorLists, target : Targets, signKey : BOOLEAN, minLen : {0, 2},
     fmt : {"score"}]

\* lines 110-111: the formatted scores of the first five pool nodes
TopFlashScores(pool) ==
    [k \in 1 .. (IF Len(pool) < 5 THEN Len(pool) ELSE 5) |-> FormatScore(pool[k])]

NoProgress == [iteration |-> -1, flash_scores |-> <<>>, best |-> -1]

\* no second solve() call is under way; no solve() call has returned yet
NoFrame == [pc |-> "none"]

NoResult == [outcome |-> "none"]

NoCalls == [combine |-> 0, get_hash_key |-> 0, is_solution |-> 0, is_nontrivial |-> 0]

appvars == <<search_status, start_pc, loop_pc, poly_idx>>

primevars == <<prime_p, prime_pc, candidates, cand_idx, seen, reps>>

\* what belongs to the programs next to the engine
sidevars == <<appvars, primevars>>

\* primes_above is not running
PrimesIdle ==
    /\ prime_p = 0
    /\ prime_pc = "none"
    /\ candidates = <<>>
    /\ cand_idx = 0
    /\ seen = {}
    /\ reps = <<>>

\* the web app is not running
AppIdle ==
    /\ search_status = [running |-> FALSE, solutions |-> 0, iteration |-> 0]
    /\ start_pc = <<>>
    /\ loop_pc = <<>>
    /\ poly_idx = <<>>

\* FlashBeam.__init__
Init ==
    /\ problem \in Problems
    /\ beam_width \in 0 .. MaxBeamWidth
    /\ flash_size \in 0 .. MaxFlashSize
    /\ max_iterations \in 0 .. MaxIterations
    /\ max_solutions \in 0 .. MaxSolutions
    /\ pc = "start"
    /\ outcome = "none"
    /\ i = 0
    /\ current_beam = <<>>
    /\ visited = {}
    /\ persistent_flash = <<>>
    /\ found_solutions = <<>>
    /\ expansion_pool = <<>>
    /\ next_candidates = <<>>
    /\ b_idx = 0
    /\ f_idx = 0
    /\ calls = NoCalls
    /\ visited_at_head = 0
    /\ last_combine = <<>>
    /\ progress = NoProgress
    /\ history = <<>>
    /\ other = NoFrame
    /\ first_result = NoResult
    /\ impl = "none"
    /\ node = <<>>
    /\ operands = <<>>
    /\ AppIdle
    /\ PrimesIdle

params == <<problem, beam_width, flash_size, max_iterations, max_solutions>>

implvars == <<impl, node, operands>>

callvars == <<other, first_result, implvars, sidevars>>

SolveInitOnLeftovers ==
    /\ pc = "start"
    /\ current_beam' = <<InitialNode>> \o Generators
    /\ visited' = visited \cup {GetHashKey(InitialNode)}
                    \cup {GetHashKey(Generators[k]) : k \in 1 .. Len(Generators)}
    /\ persistent_flash' = Generators
    /\ found_solutions' = found_solutions
    /\ calls' = [calls EXCEPT !.get_hash_key = 1 + Len(Generators)]
    /\ pc' = "loop"
    /\ UNCHANGED <<params, outcome, i, expansion_pool, next_candidates, b_idx, f_idx,
                   visited_at_head, last_combine, progress, history, callvars>>

SolveInitRootOnly ==
    /\ pc = "start"
    /\ current_beam' = <<InitialNode>> \o Generators
    /\ visited' = {GetHashKey(InitialNode)}
    /\ persistent_flash' = Generators
    /\ found_solutions' = <<>>
    /\ calls' = [calls EXCEPT !.get_hash_key = 1 + Len(Generators)]
    /\ pc' = "loop"
    /\ UNCHANGED <<params, outcome, i, expansion_pool, next_candidates, b_idx, f_idx,
                   visited_at_head, last_combine, progress, history, callvars>>

\* lines 77-94: the state solve() starts from
SolveInit ==
    /\ pc = "start"
    /\ current_beam' = <<InitialNode>> \o Generators
    /\ visited' = {GetHashKey(InitialNode)}
                    \cup {GetHashKey(Generators[k]) : k \in 1 .. Len(Generators)}
    /\ persistent_flash' = Generators
    /\ found_solutions' = <<>>
    /\ calls' = [calls EXCEPT !.get_hash_key = 1 + Len(Generators)]
    /\ pc' = "loop"
    /\ UNCHANGED <<params, outcome, i, expansion_pool, next_candidates, b_idx, f_idx,
                   visited_at_head, last_combine, progress, history, callvars>>

\* lines 96-118: the head of an iteration
BeginIteration ==
    /\ pc = "loop"
    /\ i < max_iterations
    /\ LET pool == ExpansionPool(persistent_flash, Generators) IN
       /\ expansion_pool' = pool
       /\ next_candidates' = <<>>
       /\ visited_at_head' = Cardinality(visited)
       /\ progress' = [iteration |-> i, flash_scores |-> TopFlashScores(pool),
                       best |-> -1]
       /\ calls' = [calls EXCEPT !.get_hash_key =
                        @ + Len(persistent_flash) + Len(Generators)]
       /\ IF current_beam = <<>> \/ pool = <<>>
          THEN pc' = "select" /\ b_idx' = 0 /\ f_idx' = 0
          ELSE pc' = "expand" /\ b_idx' = 1 /\ f_idx' = 1
    /\ UNCHANGED <<params, outcome, i, current_beam, visited, persistent_flash,
                   found_solutions, last_combine, history, callvars>>

\* lines 96, 183-184: the loop ran max_iterations times
BudgetExceeded ==
    /\ pc = "loop"
    /\ i >= max_iterations
    /\ pc' = "done"
    /\ outcome' = "BudgetExceeded"
    /\ UNCHANGED <<params, i, current_beam, visited, persistent_flash,
                   found_solutions, expansion_pool, next_candidates, b_idx, f_idx,
                   calls, visited_at_head, last_combine, progress, history,
                   callvars>>

\* lines 121-149: the body of the nested loops for one frontier/pool pair
ExpandPair ==
    /\ pc = "expand"
    /\ LET args == CombineArgs(current_beam[b_idx], expansion_pool[f_idx])
           child == Combine(args[1], args[2])
           uid == GetHashKey(child)
           last == b_idx = Len(current_beam) /\ f_idx = Len(expansion_pool)
           advance == /\ pc' = IF last THEN "select" ELSE "expand"
                      /\ f_idx' = IF f_idx = Len(expansion_pool) THEN 1 ELSE f_idx + 1
                      /\ b_idx' = IF f_idx = Len(expansion_pool) THEN b_idx + 1 ELSE b_idx
                      /\ outcome' = outcome
       IN
       /\ last_combine' = args
       /\ IF AlreadyVisited(uid, visited)
          THEN /\ advance
               /\ calls' = [calls EXCEPT !.combine = @ + 1, !.get_hash_key = @ + 1]
               /\ UNCHANGED <<visited, found_solutions, next_candidates>>
          ELSE /\ visited' = VisitedAdd(visited, uid)
               /\ calls' = [calls EXCEPT !.combine = @ + 1, !.get_hash_key = @ + 1,
                               !.is_solution = @ + 1,
                               !.is_nontrivial = @ + (IF IsSolution(child) THEN 1 ELSE 0)]
               /\ IF Accepted(child)
                  THEN /\ found_solutions' = Append(found_solutions, child)
                       /\ IF ReachedMax(Append(found_solutions, child))
                          THEN /\ pc' = "done"
                               /\ outcome' = "Solved"
                               /\ UNCHANGED <<next_candidates, b_idx, f_idx>>
                          ELSE /\ advance
                               /\ next_candidates' = Append(next_candidates, child)
                  ELSE /\ advance
                       /\ next_candidates' = Append(next_candidates, child)
                       /\ UNCHANGED found_solutions
    /\ UNCHANGED <<params, i, current_beam, persistent_flash, expansion_pool,
                   visited_at_head, progress, history, callvars>>

\* lines 151-181: the end of an iteration
SelectAndRefresh ==
    /\ pc = "select"
    /\ IF next_candidates = <<>>
       THEN /\ pc' = "done"
            /\ outcome' = "Exhausted"
            /\ UNCHANGED <<i, current_beam, persistent_flash, next_candidates, calls,
                           progress, history>>
       ELSE LET beam == UpdateBeam(next_candidates)
                flash == RefreshFlash(persistent_flash, beam) IN
            /\ current_beam' = beam
            \* the sort of line 159 is in place; nsmallest leaves the list alone
            /\ next_candidates' = IF Len(next_candidates) > beam_width
                                  THEN next_candidates ELSE beam
            /\ persistent_flash' = flash
            /\ calls' = [calls EXCEPT !.get_hash_key =
                            @ + FlashScanCalls(SortByScore(persistent_flash \o beam), 0, {})]
            \* line 179: current_beam[0] raises IndexError on an empty frontier
            /\ IF beam = <<>>
               THEN /\ pc' = "done" /\ outcome' = "Error" /\ i' = i
                    /\ UNCHANGED <<progress, history>>
               ELSE /\ pc' = "loop" /\ outcome' = outcome /\ i' = i + 1
                    /\ progress' = [iteration |-> i, flash_scores |-> <<>>,
                                    best |-> FormatScore(beam[1])]
                    /\ history' = Append(history, [frontier |-> beam, flash |-> flash,
                                                   visited |-> visited,
                                                   candidates |-> Len(next_candidates)])
    /\ UNCHANGED <<params, visited, found_solutions, expansion_pool, b_idx, f_idx,
                   visited_at_head, last_combine, callvars>>

Next ==
    \/ SolveInit
    \/ BeginIteration
    \/ BudgetExceeded
    \/ ExpandPair
    \/ SelectAndRefresh

Spec == Init /\ [][Next]_vars

\* ------------------------------------- several solve() calls side by side

Formats == {"score", "state"}

\* the problems of the searches run side by side
CallProblems ==
    {p \in Problems : p.gens \in {<<1, Modulus - 1>>, <<1, 3>>} /\ ~p.signKey}

\* the state of the solve() call that is running
Frame ==
    [problem |-> problem, beam_width |-> beam_width, flash_size |-> flash_size,
     max_iterations |-> max_iterations, max_solutions |-> max_solutions,
     pc |-> pc, outcome |-> outcome, i |-> i, current_beam |-> current_beam,
     visited |-> visited, persistent_flash |-> persistent_flash,
     found_solutions |-> found_solutions, expansion_pool |-> expansion_pool,
     next_candidates |-> next_candidates, b_idx |-> b_idx, f_idx |-> f_idx,
     calls |-> calls, visited_at_head |-> visited_at_head,
     last_combine |-> last_combine, progress |-> progress, history |-> history]

\* what a solve() call has returned, and the iterations it went through
Returned ==
    [problem |-> problem, outcome |-> outcome, found_solutions |-> found_solutions,
     history |-> history]

\* two engines of the same configuration, each about to run solve() on its own
\* problem instance; the second problem may format its scores differently
InitCalls ==
    /\ problem \in CallProblems
    /\ beam_width \in {1, MaxBeamWidth}
    /\ flash_size = MaxFlashSize
    /\ max_iterations \in {1, MaxIterations}
    /\ max_solutions \in 1 .. MaxSolutions
    /\ pc = "start"
    /\ outcome = "none"
    /\ i = 0
    /\ current_beam = <<>>
    /\ visited = {}
    /\ persistent_flash = <<>>
    /\ found_solutions = <<>>
    /\ expansion_pool = <<>>
    /\ next_candidates = <<>>
    /\ b_idx = 0
    /\ f_idx = 0
    /\ calls = NoCalls
    /\ visited_at_head = 0
    /\ last_combine = <<>>
    /\ progress = NoProgress
    /\ history = <<>>
    /\ \E f \in Formats : other = [Frame EXCEPT !.problem.fmt = f]
    /\ first_result = NoResult
    /\ impl = "none"
    /\ node = <<>>
    /\ operands = <<>>
    /\ AppIdle
    /\ PrimesIdle

\* the running call is suspended and the other one goes on where it stopped
Switch ==
    /\ other.pc # "none"
    /\ other' = Frame
    /\ problem' = other.problem
    /\ beam_width' = other.beam_width
    /\ flash_size' = other.flash_size
    /\ max_iterations' = other.max_iterations
    /\ max_solutions' = other.max_solutions
    /\ pc' = other.pc
    /\ outcome' = other.outcome
    /\ i' = other.i
    /\ current_beam' = other.current_beam
    /\ visited' = other.visited
    /\ persistent_flash' = other.persistent_flash
    /\ found_solutions' = other.found_solutions
    /\ expansion_pool' = other.expansion_pool
    /\ next_candidates' = other.next_candidates
    /\ b_idx' = other.b_idx
    /\ f_idx' = other.f_idx
    /\ calls' = other.calls
    /\ visited_at_head' = other.visited_at_head
    /\ last_combine' = other.last_combine
    /\ progress' = other.progress
    /\ history' = other.history
    /\ UNCHANGED <<first_result, implvars, sidevars>>

\* solve() has returned and is called again on the same engine: the loop's
\* locals are gone, and whatever the earlier call left in its frontier, flash
\* pool, visited set and solution list is still lying about
Recall ==
    /\ pc = "done"
    /\ first_result = NoResult
    /\ first_result' = Returned
    /\ pc' = "start"
    /\ outcome' = "none"
    /\ i' = 0
    /\ expansion_pool' = <<>>
    /\ next_candidates' = <<>>
    /\ b_idx' = 0
    /\ f_idx' = 0
    /\ calls' = NoCalls
    /\ visited_at_head' = 0
    /\ last_combine' = <<>>
    /\ progress' = NoProgress
    /\ history' = <<>>
    /\ UNCHANGED <<params, current_beam, visited, persistent_flash, found_solutions,
                   other, implvars, sidevars>>

NextCalls ==
    \/ SolveInit
    \/ BeginIteration
    \/ BudgetExceeded
    \/ ExpandPair
    \/ SelectAndRefresh
    \/ Switch
    \/ Recall

SpecCalls == InitCalls /\ [][NextCalls]_vars

\* ------------------------- combine of the matrix problems, on its own

\* fmpz_mat product of two n x n matrices, stored row by row
RECURSIVE DotProduct(_, _, _, _, _, _)
DotProduct(A, B, n, r, c, k) ==
    IF k = 0 THEN 0
    ELSE A[(r - 1) * n + k] * B[(k - 1) * n + c] + DotProduct(A, B, n, r, c, k - 1)

MatMul(A, B, n) ==
    [idx \in 1 .. n * n |->
        DotProduct(A, B, n, ((idx - 1) \div n) + 1, ((idx - 1) % n) + 1, n)]

\* inverses_map of both problems
NameInverse(t) ==
    CASE t = "a" -> "ai" [] t = "ai" -> "a" [] t = "b" -> "bi" [] t = "bi" -> "b"

\* _reduce_word / reduce_word: the stack that cancels a name before its inverse
RECURSIVE ReduceTokens(_, _)
ReduceTokens(stack, tokens) ==
    IF tokens = <<>> THEN stack
    ELSE LET t == Head(tokens) IN
         IF stack # <<>> /\ NameInverse(stack[Len(stack)]) = t
         THEN ReduceTokens(SubSeq(stack, 1, Len(stack) - 1), Tail(tokens))
         ELSE ReduceTokens(Append(stack, t), Tail(tokens))

\* longReidGroup.py
T_PARAM == 9

\* the primes of t(t-1) = 72
PRIMES == {2, 3}

MAT_a == <<T_PARAM, 0, 0, 1>>
MAT_b == <<1 + T_PARAM * T_PARAM, 2, T_PARAM, 1>>
MAT_ai == <<1, 0, 0, T_PARAM>>
MAT_bi == <<1, -2, -T_PARAM, 1 + T_PARAM * T_PARAM>>

actions == <<MAT_a, MAT_b, MAT_ai, MAT_bi>>
names == <<"a", "b", "ai", "bi">>

\* the while loop of _canonicalize_mat for one prime: the division is exact
RECURSIVE DivideOut(_, _)
DivideOut(M, p) ==
    IF \A k \in 1 .. Len(M) : M[k] % p = 0
    THEN DivideOut([k \in 1 .. Len(M) |-> M[k] \div p], p)
    ELSE M

RECURSIVE CanonicalizeOver(_, _)
CanonicalizeOver(M, ps) ==
    IF ps = {} THEN M
    ELSE LET p == CHOOSE q \in ps : TRUE IN
         CanonicalizeOver(DivideOut(M, p), ps \ {p})

\* _canonicalize_mat: divide out the common factors among PRIMES
CanonicalizeMat(M) == CanonicalizeOver(M, PRIMES)

\* the nodes of this part carry no score: both problems compute it from the
\* state alone, and no key reads it
LongReidInitialNode == [state |-> <<1, 0, 0, 1>>, identifier |-> <<>>]

LongReidGenerators ==
    [k \in 1 .. Len(actions) |->
        [state |-> CanonicalizeMat(actions[k]), identifier |-> <<names[k]>>]]

LongReidCombine(node_a, node_b) ==
    [state |-> CanonicalizeMat(MatMul(node_a.state, node_b.state, 2)),
     identifier |-> ReduceTokens(<<>>, node_a.identifier \o node_b.identifier)]

LongReidGetHashKey(n) == n.state

\* PU2_Z65_search.py: the 4 x 4 matrix of 2q = a + bi + cj + dk
GetQuatMat(a, b, c, d) ==
    << a, -b, -c, -d,
       b,  a, -d,  c,
       c,  d,  a, -b,
       d, -c,  b,  a >>

\* the first column
MatToQuatCoeffs(mat) == <<mat[1], mat[5], mat[9], mat[13]>>

Abs(x) == IF x < 0 THEN -x ELSE x

\* math.gcd on two non-negative numbers
RECURSIVE Gcd(_, _)
Gcd(x, y) == IF y = 0 THEN x ELSE Gcd(y, x % y)

\* get_mat_content: the gcd of the first column, halved when dividing by it
\* would leave coefficients of mixed parity
GetMatContent(mat) ==
    LET q == MatToQuatCoeffs(mat)
        g == Gcd(Gcd(Gcd(Abs(q[1]), Abs(q[2])), Abs(q[3])), Abs(q[4])) IN
    IF g = 0 THEN 1
    ELSE IF \A k \in 2 .. 4 : (q[k] \div g) % 2 = (q[1] \div g) % 2
         THEN g
         ELSE g \div 2

MatDivKeep(mat, g) == mat

\* mat_div: floor division of every entry
MatDiv(mat, g) ==
    IF g <= 1 THEN mat ELSE [k \in 1 .. Len(mat) |-> mat[k] \div g]

\* MatrixTargetProblem._canonicalize
Canonicalize(mat) == MatDiv(mat, GetMatContent(mat))

MatrixTargetInitialNode == [state |-> GetQuatMat(2, 0, 0, 0), identifier |-> <<>>]

\* a = 1+2i, b = 3+2j and their conjugates, stored as built (not canonicalized)
MatrixTargetGenerators ==
    << [state |-> GetQuatMat(2, 4, 0, 0), identifier |-> <<"a">>],
       [state |-> GetQuatMat(6, 0, 4, 0), identifier |-> <<"b">>],
       [state |-> GetQuatMat(2, -4, 0, 0), identifier |-> <<"ai">>],
       [state |-> GetQuatMat(6, 0, -4, 0), identifier |-> <<"bi">>] >>

MatrixTargetCombine(node_a, node_b) ==
    [state |-> Canonicalize(MatDiv(MatMul(node_a.state, node_b.state, 4), 2)),
     identifier |-> ReduceTokens(<<>>, node_a.identifier \o node_b.identifier)]

\* get_hash_key: the first column, negated when its first non-zero entry is
\* negative
MatrixTargetGetHashKey(n) ==
    LET coeffs == MatToQuatCoeffs(n.state)
        nonzero == {k \in 1 .. 4 : coeffs[k] # 0} IN
    IF nonzero # {} /\ coeffs[CHOOSE k \in nonzero : \A j \in nonzero : k <= j] < 0
    THEN [k \in 1 .. 4 |-> -coeffs[k]]
    ELSE coeffs

Impls == {"LongReidProblem", "MatrixTargetProblem"}

enginevars ==
    <<params, pc, outcome, i, current_beam, visited, persistent_flash,
      found_solutions, expansion_pool, next_candidates, b_idx, f_idx, calls,
      visited_at_head, last_combine, progress, history, other, first_result>>

\* a problem instance with its root node; no engine is running
InitCombine ==
    /\ impl \in Impls
    /\ node = IF impl = "LongReidProblem"
              THEN LongReidInitialNode ELSE MatrixTargetInitialNode
    /\ operands = <<>>
    /\ AppIdle
    /\ PrimesIdle
    /\ problem = [gens |-> <<>>, target |-> {}, signKey |-> FALSE, minLen |-> 0,
                  fmt |-> "score"]
    /\ beam_width = 0
    /\ flash_size = 0
    /\ max_iterations = 0
    /\ max_solutions = 0
    /\ pc = "none"
    /\ outcome = "none"
    /\ i = 0
    /\ current_beam = <<>>
    /\ visited = {}
    /\ persistent_flash = <<>>
    /\ found_solutions = <<>>
    /\ expansion_pool = <<>>
    /\ next_candidates = <<>>
    /\ b_idx = 0
    /\ f_idx = 0
    /\ calls = NoCalls
    /\ visited_at_head = 0
    /\ last_combine = <<>>
    /\ progress = NoProgress
    /\ history = <<>>
    /\ other = NoFrame
    /\ first_result = NoResult

\* LongReidProblem.combine(node, g) for a generator g
LongReidCombineStep ==
    /\ impl = "LongReidProblem"
    /\ Len(node.identifier) < MaxWordLen
    /\ \E k \in 1 .. Len(LongReidGenerators) :
          /\ operands' = <<node, LongReidGenerators[k]>>
          /\ node' = LongReidCombine(node, LongReidGenerators[k])
    /\ UNCHANGED <<impl, enginevars, sidevars>>

\* MatrixTargetProblem.combine(node, g) for a generator g
MatrixTargetCombineStep ==
    /\ impl = "MatrixTargetProblem"
    /\ Len(node.identifier) < MaxWordLen
    /\ \E k \in 1 .. Len(MatrixTargetGenerators) :
          /\ operands' = <<node, MatrixTargetGenerators[k]>>
          /\ node' = MatrixTargetCombine(node, MatrixTargetGenerators[k])
    /\ UNCHANGED <<impl, enginevars, sidevars>>

NextCombine ==
    \/ LongReidCombineStep
    \/ MatrixTargetCombineStep

SpecCombine == InitCombine /\ [][NextCombine]_vars

\* ------------------------------------------- riley/app.py: the web app

Requests == 1 .. MaxRequests

\* no engine is running and no problem class is exercised
EngineIdle ==
    /\ problem = [gens |-> <<>>, target |-> {}, signKey |-> FALSE, minLen |-> 0,
                  fmt |-> "score"]
    /\ beam_width = 0
    /\ flash_size = 0
    /\ max_iterations = 0
    /\ max_solutions = 0
    /\ pc = "none"
    /\ outcome = "none"
    /\ i = 0
    /\ current_beam = <<>>
    /\ visited = {}
    /\ persistent_flash = <<>>
    /\ found_solutions = <<>>
    /\ expansion_pool = <<>>
    /\ next_candidates = <<>>
    /\ b_idx = 0
    /\ f_idx = 0
    /\ calls = NoCalls
    /\ visited_at_head = 0
    /\ last_combine = <<>>
    /\ progress = NoProgress
    /\ history = <<>>
    /\ other = NoFrame
    /\ first_result = NoResult
    /\ impl = "none"
    /\ node = <<>>
    /\ operands = <<>>

\* lines 16-22: the module is loaded, no request has arrived
InitApp ==
    /\ search_status = [running |-> FALSE, solutions |-> 0, iteration |-> 0]
    /\ start_pc = [r \in Requests |-> "received"]
    /\ loop_pc = [r \in Requests |-> "none"]
    /\ poly_idx = [r \in Requests |-> 0]
    /\ EngineIdle
    /\ PrimesIdle

\* lines 99-101 of start(): the test of the running flag
StartCheck(r) ==
    /\ start_pc[r] = "received"
    /\ start_pc' = [start_pc EXCEPT ![r] =
                       IF search_status.running THEN "rejected" ELSE "passed"]
    /\ UNCHANGED <<search_status, loop_pc, poly_idx, enginevars, implvars, primevars>>

\* lines 103-113 of start(): the thread is created and started
StartThread(r) ==
    /\ start_pc[r] = "passed"
    /\ loop_pc' = [loop_pc EXCEPT ![r] = "started"]
    /\ start_pc' = [start_pc EXCEPT ![r] = "accepted"]
    /\ UNCHANGED <<search_status, poly_idx, enginevars, implvars, primevars>>

\* lines 46-56 of search_loop: the flag is set and the results are reset
SearchLoopEnter(t) ==
    /\ loop_pc[t] = "started"
    /\ search_status' = [running |-> TRUE, solutions |-> 0, iteration |-> 0]
    /\ loop_pc' = [loop_pc EXCEPT ![t] = "loop"]
    /\ poly_idx' = [poly_idx EXCEPT ![t] = 0]
    /\ UNCHANGED <<start_pc, enginevars, implvars, primevars>>

\* lines 58-90: one polynomial; its FlashBeam search finds a relation or not,
\* and the list of solutions is kept as its length
SearchLoopPoly(t) ==
    /\ loop_pc[t] = "loop"
    /\ poly_idx[t] < MaxPolys
    /\ search_status.running
    /\ \E found \in BOOLEAN :
          search_status' = [search_status EXCEPT
                               !.iteration = poly_idx[t],
                               !.solutions = IF found THEN @ + 1 ELSE @]
    /\ poly_idx' = [poly_idx EXCEPT ![t] = @ + 1]
    /\ UNCHANGED <<start_pc, loop_pc, enginevars, implvars, primevars>>

\* lines 58-59, 92: the polynomials are used up or the flag was cleared
SearchLoopExit(t) ==
    /\ loop_pc[t] = "loop"
    /\ poly_idx[t] = MaxPolys \/ ~search_status.running
    /\ search_status' = [search_status EXCEPT !.running = FALSE]
    /\ loop_pc' = [loop_pc EXCEPT ![t] = "returned"]
    /\ UNCHANGED <<start_pc, poly_idx, enginevars, implvars, primevars>>

NextApp ==
    \/ \E r \in Requests : StartCheck(r)
    \/ \E r \in Requests : StartThread(r)
    \/ \E t \in Requests : SearchLoopEnter(t)
    \/ \E t \in Requests : SearchLoopPoly(t)
    \/ \E t \in Requests : SearchLoopExit(t)

SpecApp == InitApp /\ [][NextApp]_vars


\* ------------------------------- quaternions/hurwitz.py: primes_above

\* the odd primes the search is run for
OddPrimes ==
    {q \in 3 .. MaxPrime : \A k \in 2 .. q - 1 : q % k # 0}

\* int(n ** 0.5)
ISqrt(n) == CHOOSE k \in 0 .. n : k * k <= n /\ (k + 1) * (k + 1) > n

\* __init__ with check_parity: the four coefficients have the same parity
SameParity(q) == \A k \in 2 .. 4 : q[k] % 2 = q[1] % 2

\* __mul__: the product of the numerators, halved
HMul(x, y) ==
    << (x[1] * y[1] - x[2] * y[2] - x[3] * y[3] - x[4] * y[4]) \div 2,
       (x[1] * y[2] + x[2] * y[1] + x[3] * y[4] - x[4] * y[3]) \div 2,
       (x[1] * y[3] - x[2] * y[4] + x[3] * y[1] + x[4] * y[2]) \div 2,
       (x[1] * y[4] + x[2] * y[3] - x[3] * y[2] + x[4] * y[1]) \div 2 >>

\* norm
Norm(q) == (q[1] * q[1] + q[2] * q[2] + q[3] * q[3] + q[4] * q[4]) \div 4

UnitsLipschitz ==
    {[k \in 1 .. 4 |-> IF k = j THEN v ELSE 0] : j \in 1 .. 4, v \in {2, -2}}

\* units: the 8 Lipschitz units and the 16 half-integer units
Units ==
    {[k \in 1 .. 4 |-> IF k = j THEN v ELSE 0] : j \in 1 .. 4, v \in {2, -2}}
       \cup {<<a, b, c, d>> : a \in {-1, 1}, b \in {-1, 1}, c \in {-1, 1}, d \in {-1, 1}}

\* generate_solutions: the loops over a, b and c, with d the root of the rest
GenerateSolutions(p, parity_mod_2) ==
    LET target_sum == 4 * p
        limit == ISqrt(target_sum)
        abc == {t \in (-limit .. limit) \X (-limit .. limit) \X (-limit .. limit) :
                   /\ \A k \in 1 .. 3 : t[k] % 2 = parity_mod_2
                   /\ t[1] * t[1] + t[2] * t[2] + t[3] * t[3] <= target_sum
                   /\ LET rc == target_sum - t[1] * t[1] - t[2] * t[2] - t[3] * t[3] IN
                      ISqrt(rc) * ISqrt(rc) = rc /\ ISqrt(rc) % 2 = parity_mod_2}
        Root(t) == ISqrt(target_sum - t[1] * t[1] - t[2] * t[2] - t[3] * t[3]) IN
    {<<t[1], t[2], t[3], Root(t)>> : t \in abc}
       \cup {<<t[1], t[2], t[3], -Root(t)>> : t \in abc}

\* the sort key (a, b, c, d), compared as tuples
KeyGreater(x, y) ==
    \E k \in 1 .. 4 : x[k] > y[k] /\ \A j \in 1 .. k - 1 : x[j] = y[j]

\* sort(key=..., reverse=True) of a set of distinct quaternions
RECURSIVE SortDescending(_)
SortDescending(S) ==
    IF S = {} THEN <<>>
    ELSE LET m == CHOOSE x \in S : \A y \in S \ {x} : KeyGreater(x, y) IN
         <<m>> \o SortDescending(S \ {m})

\* the representative of an orbit
Chosen(p, cand, orbit) ==
    LET preferred == {q \in orbit : q[1] > 0 /\ q[1] % 4 = 2}
        positive == {q \in orbit : q[1] > 0}
        First(S) == CHOOSE x \in S : \A y \in S \ {x} : KeyGreater(x, y) IN
    IF p % 4 = 1 /\ preferred # {} THEN First(preferred)
    ELSE IF positive # {} THEN First(positive)
    ELSE cand

\* primes_above is called for an odd prime
InitPrimes ==
    /\ prime_p \in OddPrimes
    /\ prime_pc = "start"
    /\ candidates = <<>>
    /\ cand_idx = 0
    /\ seen = {}
    /\ reps = <<>>
    /\ EngineIdle
    /\ AppIdle

\* the candidates of both parities, sorted
CollectCandidates ==
    /\ prime_pc = "start"
    /\ candidates' = SortDescending(GenerateSolutions(prime_p, 0)
                                       \cup GenerateSolutions(prime_p, 1))
    /\ cand_idx' = 1
    /\ prime_pc' = "loop"
    /\ UNCHANGED <<prime_p, seen, reps, enginevars, implvars, appvars>>

\* a candidate of an orbit already seen
SkipSeen ==
    /\ prime_pc = "loop"
    /\ cand_idx <= Len(candidates)
    /\ candidates[cand_idx] \in seen
    /\ cand_idx' = cand_idx + 1
    /\ UNCHANGED <<prime_p, prime_pc, candidates, seen, reps, enginevars, implvars,
                   appvars>>

\* the orbit of a new candidate under the units, and its representative; a
\* product of mixed parity raises ValueError
ChooseRepresentative ==
    /\ prime_pc = "loop"
    /\ cand_idx <= Len(candidates)
    /\ candidates[cand_idx] \notin seen
    /\ LET cand == candidates[cand_idx]
           orbit == {HMul(u, cand) : u \in Units} IN
       IF \A q \in orbit : SameParity(q)
       THEN /\ seen' = seen \cup orbit
            /\ reps' = Append(reps, Chosen(prime_p, cand, orbit))
            /\ cand_idx' = cand_idx + 1
            /\ prime_pc' = prime_pc
       ELSE /\ prime_pc' = "ValueError"
            /\ UNCHANGED <<seen, reps, cand_idx>>
    /\ UNCHANGED <<prime_p, candidates, enginevars, implvars, appvars>>

\* return reps
ReturnReps ==
    /\ prime_pc = "loop"
    /\ cand_idx > Len(candidates)
    /\ prime_pc' = "returned"
    /\ UNCHANGED <<prime_p, candidates, cand_idx, seen, reps, enginevars, implvars,
                   appvars>>

NextPrimes ==
    \/ CollectCandidates
    \/ SkipSeen
    \/ ChooseRepresentative
    \/ ReturnReps

SpecPrimes == InitPrimes /\ [][NextPrimes]_vars

\* ------------------------------------------------------------ claims

\* C1: every node of the solution list satisfies is_solution and is_nontrivial.
SolutionsValid ==
    \A k \in 1 .. Len(found_solutions) :
        IsSolution(found_solutions[k]) /\ IsNontrivial(found_solutions[k])

\* a solution was accepted by a problem whose filter rejects the short words
SolutionsValidWitness ==
    pc = "done" /\ Len(found_solutions) >= 1 /\ problem.minLen = 2

\* C2: no two nodes of the solution list share a canonical key.
NoDuplicateSolutions ==
    \A j, k \in 1 .. Len(found_solutions) :
        j # k => GetHashKey(found_solutions[j]) # GetHashKey(found_solutions[k])

\* two solutions were reported in a run that skipped already visited children
NoDuplicateSolutionsWitness ==
    /\ pc = "done"
    /\ Len(found_solutions) >= 2
    /\ calls.combine > calls.is_solution

\* C3: after every completed iteration the frontier holds at most beam_width nodes.
FrontierBound == i >= 1 => Len(current_beam) <= beam_width

\* an iteration completed that had more candidates than the beam takes
FrontierBoundWitness ==
    /\ pc = "loop"
    /\ i >= 1
    /\ Len(next_candidates) > beam_width
    /\ Len(current_beam) = beam_width

\* C4: after every completed iteration the flash pool holds at most flash_size
\* nodes, for every value of flash_size.
FlashBound == i >= 1 => Len(persistent_flash) <= flash_size

\* C5: with max_solutions = 1 the step that appends the first accepted child ends
\* the search: the list has one node, the loops stand at the pair that made it,
\* and nothing is called or updated after it.
EarlyExit ==
    [][max_solutions = 1 =>
        /\ Len(found_solutions') <= 1
        /\ Len(found_solutions') > Len(found_solutions) =>
              /\ pc' = "done" /\ outcome' = "Solved"
              /\ found_solutions' =
                    <<Combine(current_beam[b_idx], expansion_pool[f_idx])>>
              /\ UNCHANGED <<current_beam, persistent_flash, next_candidates, i>>
        /\ Len(found_solutions) >= 1 =>
              UNCHANGED <<calls, visited, current_beam, persistent_flash>>]_vars

\* the search was stopped by its first solution in a later iteration
EarlyExitWitness ==
    /\ max_solutions = 1
    /\ outcome = "Solved"
    /\ Len(found_solutions) = 1
    /\ i >= 1

\* C6: solve() never returns more than max_solutions nodes, for every value of
\* max_solutions.
SolutionCap == Len(found_solutions) <= max_solutions

\* C7: solve() ends in one of Solved, Exhausted and BudgetExceeded after at most
\* max_iterations iterations, and never by raising an error.
TerminationOutcomes ==
    pc = "done" =>
        /\ outcome \in {"Solved", "Exhausted", "BudgetExceeded"}
        /\ i <= max_iterations

\* C8: with an empty generator list solve() does not return normally: it ends
\* with an error before any iteration.
EmptyGeneratorsFailFast ==
    (problem.gens = <<>> /\ pc = "done") => (outcome = "Error" /\ calls.combine = 0)

\* C10: visited never loses a key, and holds at least one more key per candidate
\* of the iteration than it held at the head of the iteration.
VisitedGrowth ==
    [][/\ visited \subseteq visited'
       /\ pc' \in {"expand", "select"} =>
             Cardinality(visited') >= visited_at_head' + Len(next_candidates')
       /\ Len(next_candidates') > Len(next_candidates) =>
             Cardinality(visited') > Cardinality(visited)]_vars

\* an iteration ended with candidates
VisitedGrowthWitness ==
    /\ pc = "select"
    /\ Len(next_candidates) >= 1
    /\ i >= 1
    /\ Cardinality(visited) > visited_at_head

\* the toy problem: the cyclic group with generators +1 and -1, key = state,
\* solution = state 0, non-trivial = word longer than 2
ToyProblem ==
    /\ problem.gens = <<1, Modulus - 1>>
    /\ problem.target = {0}
    /\ ~problem.signKey
    /\ problem.minLen = 2

\* C11: on the toy problem a search that is not cut short by its budget reports
\* a non-trivial word that reaches state 0.
ToyRelationReported ==
    (/\ ToyProblem
     /\ beam_width >= 1
     /\ max_solutions >= 1
     /\ pc = "done"
     /\ outcome # "BudgetExceeded")
        => \E k \in 1 .. Len(found_solutions) :
              found_solutions[k].state = 0 /\ IsNontrivial(found_solutions[k])

\* C12: every combine call takes the frontier node as its left operand and the
\* pool node as its right operand, and a child kept as candidate carries the
\* frontier node's word followed by the pool node's word.
OperandOrder ==
    [][calls.combine' # calls.combine =>
        /\ last_combine' = <<current_beam[b_idx], expansion_pool[f_idx]>>
        /\ Len(next_candidates') > Len(next_candidates) =>
              next_candidates'[Len(next_candidates')].identifier =
                 ReduceWord(current_beam[b_idx].identifier
                               \o expansion_pool[f_idx].identifier)]_vars

\* a child was kept whose operands do not commute as words
OperandOrderWitness ==
    /\ last_combine # <<>>
    /\ Len(next_candidates) >= 1
    /\ next_candidates[Len(next_candidates)] = Combine(last_combine[1], last_combine[2])
    /\ Combine(last_combine[1], last_combine[2])
          # Combine(last_combine[2], last_combine[1])

AllNamed(nodes) == \A k \in 1 .. Len(nodes) : nodes[k].identifier # <<>>

\* C13: every node kept after expansion (candidates, flash pool, solutions, and
\* the frontier from the first completed iteration on) has a non-empty word.
NonEmptyIdentifiers ==
    /\ AllNamed(next_candidates)
    /\ AllNamed(persistent_flash)
    /\ AllNamed(found_solutions)
    /\ i >= 1 => AllNamed(current_beam)

\* a word followed by its inverse was reduced to the empty word by combine
NonEmptyIdentifiersWitness ==
    /\ last_combine # <<>>
    /\ last_combine[1].identifier # <<>>
    /\ Combine(last_combine[1], last_combine[2]).identifier = <<>>
    /\ i >= 1

\* C17: a child whose key is already visited is skipped completely (no
\* is_solution or is_nontrivial call, no candidate, no solution, visited
\* unchanged); is_solution is called only on a child whose key is new and is
\* added to visited in the same step, so it is called at most once per key: the
\* calls and the keys visited at the start together count the visited set.
VisitedChildSkipped ==
    [][LET uid == GetHashKey(Combine(current_beam[b_idx], expansion_pool[f_idx])) IN
       /\ calls'.combine # calls.combine =>
             IF uid \in visited
             THEN /\ calls'.is_solution = calls.is_solution
                  /\ calls'.is_nontrivial = calls.is_nontrivial
                  /\ next_candidates' = next_candidates
                  /\ found_solutions' = found_solutions
                  /\ visited' = visited
             ELSE /\ calls'.is_solution = calls.is_solution + 1
                  /\ uid \in visited'
       /\ calls'.is_solution # calls.is_solution => calls'.combine # calls.combine
       /\ visited \subseteq visited'
       /\ pc' # "start" =>
             calls'.is_solution
                + Cardinality({GetHashKey(InitialNode)}
                                 \cup {GetHashKey(Generators[k]) : k \in 1 .. Len(Generators)})
                = Cardinality(visited')]_vars

\* a child was skipped as visited after other children had been evaluated
VisitedChildSkippedWitness ==
    /\ last_combine # <<>>
    /\ pc \in {"expand", "select"}
    /\ calls.is_solution >= 2
    /\ calls.combine > calls.is_solution
    /\ next_candidates # <<>>
    /\ next_candidates[Len(next_candidates)]
          # Combine(last_combine[1], last_combine[2])

\* C18: during an iteration the expansion pool is the flash pool followed by the
\* generators with later nodes of an already seen key dropped: its keys are
\* pairwise distinct, every pool node is the first node of its key in that list,
\* the pool keeps the order of the list, and every key of the list is in the pool.
ExpansionPoolDeduplicated ==
    pc \in {"expand", "select"} =>
       LET src == persistent_flash \o Generators
           IsFirst(j) == \A j2 \in 1 .. j - 1 : GetHashKey(src[j2]) # GetHashKey(src[j])
       IN
       /\ \A k1, k2 \in 1 .. Len(expansion_pool) :
             k1 < k2 =>
                /\ GetHashKey(expansion_pool[k1]) # GetHashKey(expansion_pool[k2])
                /\ \E j1, j2 \in 1 .. Len(src) :
                      /\ j1 < j2
                      /\ src[j1] = expansion_pool[k1]
                      /\ src[j2] = expansion_pool[k2]
       /\ \A k \in 1 .. Len(expansion_pool) :
             \E j \in 1 .. Len(src) : src[j] = expansion_pool[k] /\ IsFirst(j)
       /\ \A j \in 1 .. Len(src) :
             \E k \in 1 .. Len(expansion_pool) :
                GetHashKey(expansion_pool[k]) = GetHashKey(src[j])

\* after a refresh the flash pool holds a node that is no generator next to one
\* that has a generator's key, and the pool dropped a duplicate
ExpansionPoolDeduplicatedWitness ==
    /\ pc = "expand"
    /\ i >= 1
    /\ Len(expansion_pool) < Len(persistent_flash) + Len(Generators)
    /\ Len(expansion_pool) > Len(Generators)
    /\ \E k \in 1 .. Len(persistent_flash) : \E g \in 1 .. Len(Generators) :
          GetHashKey(persistent_flash[k]) = GetHashKey(Generators[g])

\* C19: a new child that satisfies is_solution but not is_nontrivial is not
\* reported, does not end the search, and is appended to the candidates.
TrivialSolutionKept ==
    [][LET child == Combine(current_beam[b_idx], expansion_pool[f_idx]) IN
       (/\ calls'.combine # calls.combine
        /\ GetHashKey(child) \notin visited
        /\ IsSolution(child)
        /\ ~IsNontrivial(child))
          => /\ found_solutions' = found_solutions
             /\ next_candidates' = Append(next_candidates, child)
             /\ pc' \in {"expand", "select"}
             /\ outcome' = outcome]_vars

\* a trivial solution entered the next frontier and is being expanded
TrivialSolutionKeptWitness ==
    /\ pc = "expand"
    /\ i >= 1
    /\ calls.is_nontrivial >= 1
    /\ found_solutions = <<>>
    /\ IsSolution(current_beam[b_idx])
    /\ ~IsNontrivial(current_beam[b_idx])
    /\ f_idx >= 2

\* C20: the frontier chosen at the end of an iteration has
\* min(beam_width, number of candidates) nodes, all of them candidates of the
\* iteration, in ascending score order, and no candidate left out scores strictly
\* lower than one kept.
FrontierLowestScores ==
    [][(pc = "select" /\ next_candidates # <<>>) =>
          LET n == Len(next_candidates)
              kept == {current_beam'[k] : k \in 1 .. Len(current_beam')}
              all == {next_candidates[k] : k \in 1 .. n} IN
          /\ Len(current_beam') = IF beam_width < n THEN beam_width ELSE n
          /\ Cardinality(kept) = Len(current_beam')
          /\ kept \subseteq all
          /\ \A j, k \in 1 .. Len(current_beam') :
                j < k => current_beam'[j].score <= current_beam'[k].score
          /\ \A c \in all \ kept : \A b \in kept : c.score >= b.score]_vars

\* the heap selection cut a candidate list that was not in score order (the list
\* is left as it was) and the frontier does not start with its first candidate
FrontierLowestScoresWitness ==
    /\ pc = "loop"
    /\ i >= 1
    /\ current_beam # <<>>
    /\ Len(next_candidates) > Len(current_beam)
    /\ current_beam[1] # next_candidates[1]
    /\ \E j, k \in 1 .. Len(next_candidates) :
          j < k /\ next_candidates[j].score > next_candidates[k].score

\* C14: the frontier, flash pool, visited set and solution list belong to one
\* solve() call. A call starts from the root and the generators whatever an
\* earlier call left behind, and a call returns the same outcome and solutions
\* whether it is the first call or a later one, run alone or interleaved with a
\* call of another engine on an equal problem.
CallsIndependent ==
    /\ (pc = "loop" /\ i = 0) =>
          /\ current_beam = <<InitialNode>> \o Generators
          /\ persistent_flash = Generators
          /\ found_solutions = <<>>
          /\ \A uid \in visited :
                \/ uid = GetHashKey(InitialNode)
                \/ \E k \in 1 .. Len(Generators) : uid = GetHashKey(Generators[k])
    /\ (pc = "done" /\ other.pc = "done" /\ other.problem = problem) =>
          /\ other.outcome = outcome
          /\ other.found_solutions = found_solutions
    /\ (pc = "done" /\ first_result # NoResult /\ first_result.problem = problem) =>
          /\ first_result.outcome = outcome
          /\ first_result.found_solutions = found_solutions

\* an engine has finished its second call, with a solution, next to a finished
\* call of the other engine on an equal problem
CallsIndependentWitness ==
    /\ pc = "done"
    /\ other.pc = "done"
    /\ first_result # NoResult
    /\ other.problem = problem
    /\ Len(history) >= 1
    /\ Len(found_solutions) >= 1
    /\ visited # {}

\* C15: two searches that differ only in format_score go through the same
\* frontier, flash pool and visited set at every iteration and end with the same
\* outcome and solutions, while their progress reports differ.
FormatScoreObservational ==
    (/\ other.pc # "none"
     /\ other.problem.fmt # problem.fmt
     /\ [other.problem EXCEPT !.fmt = problem.fmt] = problem) =>
        /\ \A k \in 1 .. Len(history) :
              k <= Len(other.history) => history[k] = other.history[k]
        /\ (pc = "done" /\ other.pc = "done") =>
              /\ Len(other.history) = Len(history)
              /\ other.outcome = outcome
              /\ other.found_solutions = found_solutions
              /\ other.current_beam = current_beam
              /\ other.persistent_flash = persistent_flash
              /\ other.visited = visited
              /\ other.i = i

\* two finished searches that reported different best scores
FormatScoreObservationalWitness ==
    /\ pc = "done"
    /\ other.pc = "done"
    /\ other.problem.fmt # problem.fmt
    /\ Len(history) >= 1
    /\ progress.iteration = other.progress.iteration
    /\ progress.best # other.progress.best

\* C16: for LongReidProblem and MatrixTargetProblem the node built by combining
\* the initial node with a generator g has the key of g, a key that solve()
\* puts into visited before the first iteration.
IdempotentRoot ==
    /\ (impl = "LongReidProblem" /\ operands # <<>>
            /\ operands[1] = LongReidInitialNode) =>
          /\ LongReidGetHashKey(node) = LongReidGetHashKey(operands[2])
          /\ \E k \in 1 .. Len(LongReidGenerators) :
                LongReidGetHashKey(node) = LongReidGetHashKey(LongReidGenerators[k])
    /\ (impl = "MatrixTargetProblem" /\ operands # <<>>
            /\ operands[1] = MatrixTargetInitialNode) =>
          /\ MatrixTargetGetHashKey(node) = MatrixTargetGetHashKey(operands[2])
          /\ \E k \in 1 .. Len(MatrixTargetGenerators) :
                MatrixTargetGetHashKey(node)
                   = MatrixTargetGetHashKey(MatrixTargetGenerators[k])

\* the root was combined with the generator ai of MatrixTargetProblem, and the
\* child is not the plain matrix product
IdempotentRootWitness ==
    /\ impl = "MatrixTargetProblem"
    /\ operands # <<>>
    /\ operands[1] = MatrixTargetInitialNode
    /\ operands[2].identifier = <<"ai">>
    /\ node.state # MatMul(operands[1].state, operands[2].state, 4)

\* C21: after a flash refresh the flash pool is the first flash_size nodes of the
\* old flash pool merged with the new frontier, sorted by score, without the
\* nodes of score 0 and with one node (the best) per key: it is in ascending
\* score order, has pairwise distinct keys, holds only merged nodes of non-zero
\* score, has min(flash_size, number of eligible keys) nodes, and no eligible
\* node of a key left out scores strictly lower than a node kept.
FlashRefreshTruncated ==
    [][(pc = "select" /\ pc' = "loop") =>
          LET merged == persistent_flash \o current_beam'
              eligible == {merged[k] : k \in {j \in 1 .. Len(merged) :
                                                 ~ScoreNearZero(merged[j])}}
              keys == {GetHashKey(n) : n \in eligible}
              flash == persistent_flash'
              kept == {flash[k] : k \in 1 .. Len(flash)} IN
          /\ Len(flash) = IF flash_size < Cardinality(keys)
                          THEN flash_size ELSE Cardinality(keys)
          /\ kept \subseteq eligible
          /\ \A j, k \in 1 .. Len(flash) :
                j < k => /\ flash[j].score <= flash[k].score
                         /\ GetHashKey(flash[j]) # GetHashKey(flash[k])
          /\ \A n \in kept : \A m \in eligible :
                GetHashKey(m) = GetHashKey(n) => n.score <= m.score
          /\ \A m \in eligible :
                (\A n \in kept : GetHashKey(n) # GetHashKey(m)) =>
                   \A n \in kept : m.score >= n.score]_vars

\* C22: after an iteration no node generated so far, of non-zero score and absent
\* from the flash pool, scores strictly lower than a node of the flash pool.
\* Stated for the candidates of the iteration just completed, which are among
\* the nodes generated so far.
FlashHoldsBestSeen ==
    [][(pc = "select" /\ pc' = "loop") =>
          \A c \in {next_candidates[k] : k \in 1 .. Len(next_candidates)} :
             (/\ ~ScoreNearZero(c)
              /\ \A k \in 1 .. Len(persistent_flash') : persistent_flash'[k] # c)
                => \A k \in 1 .. Len(persistent_flash') :
                      c.score >= persistent_flash'[k].score]_vars

\* C23: after a flash refresh no node of the flash pool satisfies is_solution.
\* Stated for the nodes that an iteration generated (words of two or more
\* generators); the generators themselves are in the flash pool from line 88.
FlashHoldsNoSolution ==
    (pc = "loop" /\ i >= 1) =>
        \A k \in 1 .. Len(persistent_flash) :
            Len(persistent_flash[k].identifier) >= 2 => ~IsSolution(persistent_flash[k])

\* C24: when the target is the identity and a frontier node combined with a pool
\* node gives the identity through a word that passes is_nontrivial, the child
\* is appended to the solutions.
IdentityRelationReported ==
    [][LET child == Combine(current_beam[b_idx], expansion_pool[f_idx]) IN
       (/\ calls'.combine # calls.combine
        /\ problem.target = {0}
        /\ child.state = 0
        /\ IsNontrivial(child))
          => found_solutions' = Append(found_solutions, child)]_vars

\* lines 84-86: the keys in visited before the first iteration
StartKeys ==
    {GetHashKey(InitialNode)}
       \cup {GetHashKey(Generators[k]) : k \in 1 .. Len(Generators)}

\* C25: is_solution is never called on a node with the key of the root or of a
\* generator, and no solution has such a key.
RootAndGeneratorsNeverTested ==
    [][/\ calls'.is_solution # calls.is_solution =>
             GetHashKey(Combine(current_beam[b_idx], expansion_pool[f_idx]))
                \notin StartKeys
       /\ \A k \in 1 .. Len(found_solutions') :
             GetHashKey(found_solutions'[k]) \notin StartKeys]_vars

\* a child with a generator's key, a solution by is_solution and is_nontrivial,
\* was built in a later iteration and passed over
RootAndGeneratorsNeverTestedWitness ==
    /\ last_combine # <<>>
    /\ pc \in {"expand", "select"}
    /\ i >= 1
    /\ LET child == Combine(last_combine[1], last_combine[2]) IN
       /\ \E k \in 1 .. Len(Generators) : GetHashKey(child) = GetHashKey(Generators[k])
       /\ IsSolution(child)
       /\ IsNontrivial(child)
    /\ found_solutions = <<>>

\* the candidates generated in the iterations completed so far
RECURSIVE CandidatesSoFar(_)
CandidatesSoFar(h) ==
    IF h = <<>> THEN 0 ELSE h[Len(h)].candidates + CandidatesSoFar(SubSeq(h, 1, Len(h) - 1))

\* C26: between iterations the size of visited is the number of distinct keys of
\* the root and the generators plus the number of candidates generated so far,
\* and the key of every node of the frontier and of the flash pool is in visited.
VisitedCountsCandidates ==
    pc = "loop" =>
        /\ Cardinality(visited) = Cardinality(StartKeys) + CandidatesSoFar(history)
        /\ \A k \in 1 .. Len(current_beam) : GetHashKey(current_beam[k]) \in visited
        /\ \A k \in 1 .. Len(persistent_flash) :
              GetHashKey(persistent_flash[k]) \in visited

\* two iterations are complete, each with candidates, under keys up to sign
VisitedCountsCandidatesWitness ==
    /\ pc = "loop"
    /\ Len(history) >= 2
    /\ history[1].candidates >= 1
    /\ history[2].candidates >= 1
    /\ problem.signKey
    /\ Cardinality(StartKeys) < 1 + Len(Generators)

\* the values get_hash_key can take on the states of the group
KeySpace ==
    {GetHashKey([state |-> s, identifier |-> <<>>, score |-> CalcScore(s)]) :
        s \in 0 .. Modulus - 1}

\* C27: an iteration that does not end the search adds a key to visited, so a
\* search over N keys completes at most N iterations, and when max_iterations is
\* N or more it ends Solved or Exhausted.
IterationsBoundedByKeys ==
    [][/\ (pc = "select" /\ pc' = "loop") => Cardinality(visited') > visited_at_head
       /\ i' <= Cardinality(KeySpace)
       /\ (pc' = "done" /\ max_iterations >= Cardinality(KeySpace)) =>
             outcome' \in {"Solved", "Exhausted"}]_vars

\* C28: from the first refresh on, a refresh never makes the flash pool shorter
\* and never raises its lowest score.
FlashOnlyImproves ==
    [][(pc = "select" /\ pc' = "loop" /\ i >= 1) =>
          /\ Len(persistent_flash') >= Len(persistent_flash)
          /\ \A k \in 1 .. Len(persistent_flash) :
                \E j \in 1 .. Len(persistent_flash') :
                   persistent_flash'[j].score <= persistent_flash[k].score]_vars

\* the flash pool grew in the second refresh and took in a node of the frontier
FlashOnlyImprovesWitness ==
    /\ pc = "loop"
    /\ Len(history) >= 2
    /\ Len(history[2].flash) > Len(history[1].flash)
    /\ history[1].flash # <<>>
    /\ \E k \in 1 .. Len(history[2].flash) : \E j \in 1 .. Len(history[2].frontier) :
          history[2].flash[k] = history[2].frontier[j]

\* C29: a /start request that finds a search running is rejected, and at most
\* one search_loop thread is inside its loop at any time.
OneSearchAtATime ==
    [][/\ \A r \in Requests :
             (start_pc[r] = "received" /\ start_pc'[r] # "received"
                 /\ search_status.running) => start_pc'[r] = "rejected"
       /\ Cardinality({t \in Requests : loop_pc'[t] = "loop"}) <= 1]_vars

\* C30: for an odd prime p, primes_above(p) returns p + 1 quaternions, each of
\* norm p.
PrimesAboveCount ==
    prime_pc = "returned" =>
        /\ Len(reps) = prime_p + 1
        /\ \A k \in 1 .. Len(reps) : Norm(reps[k]) = prime_p

\* primes_above(5) has returned, and the branch for p = 1 mod 4 has picked a
\* representative whose doubled real part is 2 mod 4
PrimesAboveCountWitness ==
    /\ prime_pc = "returned"
    /\ prime_p = 5
    /\ \E k \in 1 .. Len(reps) : reps[k][1] % 4 = 2
    /\ Len(candidates) > Len(reps)

====
